---- MODULE Spec2Model ----
(***************************************************************************)
(* A model of the VDF core of gsca (src/vdf/parser.go): the line parser,   *)
(* the path functions FindNode and SetValue, and the writer; and of the    *)
(* list, filter and backup functions of src/steam/config.go.               *)
(*                                                                         *)
(* A Go string is a sequence of one-character strings; a *Node is the      *)
(* position of the node in the tree, the sequence of child indexes that    *)
(* leads to it from the root.                                              *)
(***************************************************************************)
EXTENDS Integers, Sequences, FiniteSets, TLC

VARIABLES
    input,   \* the text handed to NewParser
    root,    \* the tree returned by Parse, mutated in place by SetValue
    before,  \* the tree as it was when the last operation was called
    last,    \* the last operation: its name, arguments and return value
    sets,    \* the SetValue calls made so far, in order
    out,     \* the text produced by Write
    root2,   \* the tree returned by the second parser, reading out
    fs,      \* the files of package steam: the config file and its backups
    call     \* the last call into package steam: its arguments and results

vdfVars == <<input, root, before, last, sets, out, root2>>

steamVars == <<fs, call>>

vars == <<input, root, before, last, sets, out, root2, fs, call>>

-----------------------------------------------------------------------------
(* Bounds of the model *)

MaxChunks == 3
MaxSets == 1
MaxLines == 4
MaxIds == 2
MaxItems == 2
MaxListLines == 3
MaxBackups == 2
MaxSelection == 5
MaxResults == 2

\* for i := 1; i < 10000; i++
BackupLimit == 10000

\* return fmt.Sprintf("%s.%d", basePath, 10000)
BackupFallback == 10000

-----------------------------------------------------------------------------
(* Strings *)

Q == "\""
TAB == "\t"
NL == "\n"
CR == "\r"

EmptyStr == <<>>

Repeat(c, n) == [i \in 1..n |-> c]

IsSpace(c) == c \in {" ", TAB, NL, CR}

RECURSIVE TrimLeft(_)
TrimLeft(s) ==
    IF s = <<>> THEN s
    ELSE IF IsSpace(Head(s)) THEN TrimLeft(Tail(s)) ELSE s

RECURSIVE TrimRight(_)
TrimRight(s) ==
    IF s = <<>> THEN s
    ELSE IF IsSpace(s[Len(s)]) THEN TrimRight(SubSeq(s, 1, Len(s) - 1)) ELSE s

TrimSpace(s) == TrimRight(TrimLeft(s))

HasPrefix(s, p) == Len(s) >= Len(p) /\ SubSeq(s, 1, Len(p)) = p

\* The index of the first c in s, 0 when there is none.
IndexByte(s, c) ==
    IF \E i \in 1..Len(s) : s[i] = c
    THEN CHOOSE i \in 1..Len(s) : s[i] = c /\ \A j \in 1..(i - 1) : s[j] # c
    ELSE 0

\* strings.Split(s, "/"): always at least one segment, Split("") = [""].
RECURSIVE Split(_)
Split(s) ==
    LET i == IndexByte(s, "/") IN
    IF i = 0 THEN <<s>>
    ELSE <<SubSeq(s, 1, i - 1)>> \o Split(SubSeq(s, i + 1, Len(s)))

DropCR(s) ==
    IF s # <<>> /\ s[Len(s)] = CR THEN SubSeq(s, 1, Len(s) - 1) ELSE s

\* bufio.Scanner with the default split function ScanLines: the lines of the
\* text without their end-of-line marker; a last line without a newline is
\* returned when it is not empty.
RECURSIVE ScanLines(_)
ScanLines(data) ==
    IF data = <<>> THEN <<>>
    ELSE LET i == IndexByte(data, NL) IN
         IF i = 0 THEN <<DropCR(data)>>
         ELSE <<DropCR(SubSeq(data, 1, i - 1))>>
                  \o ScanLines(SubSeq(data, i + 1, Len(data)))

-----------------------------------------------------------------------------
(* Nodes *)

Node(key, value, children, isObject) ==
    [Key |-> key, Value |-> value, Children |-> children, IsObject |-> isObject]

\* The root built without its IsObject flag.
NewRootLeaf == Node(EmptyStr, EmptyStr, <<>>, FALSE)

\* root := &Node{IsObject: true}
NewRoot == Node(EmptyStr, EmptyStr, <<>>, TRUE)

RECURSIVE NodeAt(_, _)
NodeAt(node, pos) ==
    IF pos = <<>> THEN node ELSE NodeAt(node.Children[Head(pos)], Tail(pos))

\* Every position of the tree, the root's <<>> included.
RECURSIVE Positions(_)
Positions(node) ==
    {<<>>} \cup UNION {{<<i>> \o p : p \in Positions(node.Children[i])} :
                          i \in 1..Len(node.Children)}

-----------------------------------------------------------------------------
(* Parser *)

RECURSIVE QuotedPartsFrom(_, _, _, _, _)
QuotedPartsFrom(line, i, parts, current, inQuotes) ==
    IF i > Len(line) THEN parts
    ELSE IF line[i] = Q THEN
        IF inQuotes
        THEN QuotedPartsFrom(line, i + 1, Append(parts, current), <<>>, FALSE)
        ELSE QuotedPartsFrom(line, i + 1, parts, current, TRUE)
    ELSE IF inQuotes
        THEN QuotedPartsFrom(line, i + 1, parts, Append(current, line[i]), inQuotes)
        ELSE QuotedPartsFrom(line, i + 1, parts, current, inQuotes)

parseQuotedParts(line) == QuotedPartsFrom(line, 1, <<>>, <<>>, FALSE)

\* The nil error.
NilErr == "nil"

\* A strict parser: the end of the input inside an object is an error.
EndOfInputError(children, i) ==
    [children |-> children, next |-> i, err |-> "unexpected end of input"]

\* The children read so far are dropped at the end of the input.
EndOfInputDrop(children, i) == [children |-> <<>>, next |-> i, err |-> NilErr]

\* The scanner has no further line: the loop ends and parseObject returns the
\* children read so far, with a nil error.
EndOfInput(children, i) == [children |-> children, next |-> i, err |-> NilErr]

\* The loop of parseObject with the scanner about to read lines[i]; returns the
\* children collected, the scanner's position afterwards and the error.
RECURSIVE parseObject(_, _, _)
parseObject(lines, i, children) ==
    IF i > Len(lines) THEN EndOfInput(children, i)
    ELSE LET line == TrimSpace(lines[i]) IN
    IF line = <<>> \/ HasPrefix(line, <<"/", "/">>)
        THEN parseObject(lines, i + 1, children)
    ELSE IF line = <<"}">> THEN [children |-> children, next |-> i + 1, err |-> NilErr]
    ELSE IF line = <<"{">> THEN parseObject(lines, i + 1, children)
    ELSE LET parts == parseQuotedParts(line) IN
    IF Len(parts) = 0 THEN parseObject(lines, i + 1, children)
    ELSE IF Len(parts) = 1 THEN
        IF i + 1 > Len(lines) THEN EndOfInput(children, i + 1)
        ELSE IF TrimSpace(lines[i + 1]) = <<"{">>
        THEN LET nested == parseObject(lines, i + 2, <<>>) IN
             IF nested.err # NilErr
             THEN [children |-> <<>>, next |-> nested.next, err |-> nested.err]
             ELSE parseObject(lines, nested.next,
                 Append(children, Node(parts[1], EmptyStr, nested.children, TRUE)))
        ELSE parseObject(lines, i + 2,
                 Append(children, Node(parts[1], EmptyStr, <<>>, FALSE)))
    ELSE IF Len(parts) = 2
        THEN parseObject(lines, i + 1,
                 Append(children, Node(parts[1], parts[2], <<>>, FALSE)))
        ELSE parseObject(lines, i + 1,
                 Append(children, Node(parts[1], EmptyStr, <<>>, FALSE)))

\* p.scanner.Err() of a reader that does not fail.
ScannerErr == NilErr

\* The loop of Parse, over the root's children: the children of the root and
\* the error Parse returns; nilRoot when Parse returns a nil root with it.
RECURSIVE ParseLoop(_, _, _)
ParseLoop(lines, i, children) ==
    IF i > Len(lines)
        THEN [children |-> children, nilRoot |-> FALSE, err |-> ScannerErr]
    ELSE LET line == TrimSpace(lines[i]) IN
    IF line = <<>> \/ HasPrefix(line, <<"/", "/">>)
        THEN ParseLoop(lines, i + 1, children)
    ELSE IF line = <<"{">> THEN ParseLoop(lines, i + 1, children)
    ELSE IF line = <<"}">>
        THEN [children |-> children, nilRoot |-> FALSE, err |-> ScannerErr]
    ELSE LET parts == parseQuotedParts(line) IN
    IF Len(parts) = 0 THEN ParseLoop(lines, i + 1, children)
    ELSE IF Len(parts) = 1 THEN
        IF i + 1 > Len(lines)
        THEN [children |-> children, nilRoot |-> FALSE, err |-> ScannerErr]
        ELSE IF TrimSpace(lines[i + 1]) = <<"{">>
        THEN LET nested == parseObject(lines, i + 2, <<>>) IN
             IF nested.err # NilErr
             THEN [children |-> <<>>, nilRoot |-> TRUE, err |-> nested.err]
             ELSE ParseLoop(lines, nested.next,
                 Append(children, Node(parts[1], EmptyStr, nested.children, TRUE)))
        ELSE ParseLoop(lines, i + 2,
                 Append(children, Node(parts[1], EmptyStr, <<>>, FALSE)))
    ELSE IF Len(parts) = 2
        THEN ParseLoop(lines, i + 1,
                 Append(children, Node(parts[1], parts[2], <<>>, FALSE)))
        ELSE ParseLoop(lines, i + 1,
                 Append(children, Node(parts[1], EmptyStr, <<>>, FALSE)))

\* What Parse returns for the text: the root (ret is the pointer to it, the
\* nil pointer when Parse returns nil) and the error.
ParseResult(text) ==
    LET r == ParseLoop(ScanLines(text), 1, <<>>) IN
    IF r.nilRoot
    THEN [root |-> NewRoot, ret |-> [found |-> FALSE, pos |-> <<>>], err |-> r.err]
    ELSE [root |-> [NewRoot EXCEPT !.Children = r.children],
          ret |-> [found |-> TRUE, pos |-> <<>>], err |-> r.err]

\* The tree Parse returns.
Parse(text) == ParseResult(text).root

-----------------------------------------------------------------------------
(* Path functions *)

\* The same loop without its break: the last child with the key wins.
LastIndex(children, key) ==
    IF \E i \in 1..Len(children) : children[i].Key = key
    THEN CHOOSE i \in 1..Len(children) :
             /\ children[i].Key = key
             /\ \A j \in (i + 1)..Len(children) : children[j].Key # key
    ELSE 0

\* for _, child := range children { if child.Key == key { ...; break } }:
\* the index of the first child with the key, 0 when the loop ends without one.
FirstIndex(children, key) ==
    IF \E i \in 1..Len(children) : children[i].Key = key
    THEN CHOOSE i \in 1..Len(children) :
             /\ children[i].Key = key
             /\ \A j \in 1..(i - 1) : children[j].Key # key
    ELSE 0

\* The nil *Node.
NoNode == [found |-> FALSE, pos |-> <<>>]

\* The loop of FindNode: current is the node at pos, parts[k] the next segment.
RECURSIVE FindFrom(_, _, _, _)
FindFrom(current, parts, k, pos) ==
    IF k > Len(parts) THEN [found |-> TRUE, pos |-> pos]
    ELSE LET i == FirstIndex(current.Children, parts[k]) IN
         IF i = 0 THEN NoNode
         ELSE FindFrom(current.Children[i], parts, k + 1, Append(pos, i))

\* FindNode returning the node reached so far instead of nil.
RECURSIVE FindFromOrCurrent(_, _, _, _)
FindFromOrCurrent(current, parts, k, pos) ==
    IF k > Len(parts) THEN [found |-> TRUE, pos |-> pos]
    ELSE LET i == FirstIndex(current.Children, parts[k]) IN
         IF i = 0 THEN [found |-> TRUE, pos |-> pos]
         ELSE FindFromOrCurrent(current.Children[i], parts, k + 1, Append(pos, i))

FindNodeOrCurrent(tree, path) == FindFromOrCurrent(tree, Split(path), 1, <<>>)

FindNode(tree, path) == FindFrom(tree, Split(path), 1, <<>>)

\* SetValue from the node current on, parts[k] the next segment: the node
\* current after the call.
RECURSIVE SetFrom(_, _, _, _)
SetFrom(current, parts, k, value) ==
    LET i == FirstIndex(current.Children, parts[k]) IN
    IF k = Len(parts) THEN
        \* Set or update the final key
        IF i # 0
        THEN [current EXCEPT !.Children[i].Value = value]
        ELSE [current EXCEPT
                 !.Children = Append(@, Node(parts[k], value, <<>>, FALSE))]
    ELSE
        IF i # 0
        THEN [current EXCEPT !.Children[i] = SetFrom(@, parts, k + 1, value)]
        ELSE \* Create the missing node
             [current EXCEPT
                 !.Children = Append(@,
                     SetFrom(Node(parts[k], EmptyStr, <<>>, TRUE), parts, k + 1, value))]

\* SetValue with one slip, named by variant:
\*   "append"   the final key is appended even when a child has it already;
\*   "leafpath" a created intermediate node is not marked as an object;
\*   "replace"  an existing final child is replaced by a fresh leaf.
RECURSIVE SetFromVariant(_, _, _, _, _)
SetFromVariant(current, parts, k, value, variant) ==
    LET i == FirstIndex(current.Children, parts[k]) IN
    IF k = Len(parts) THEN
        IF i # 0 /\ variant # "append"
        THEN IF variant = "replace"
             THEN [current EXCEPT !.Children[i] = Node(parts[k], value, <<>>, FALSE)]
             ELSE [current EXCEPT !.Children[i].Value = value]
        ELSE [current EXCEPT
                 !.Children = Append(@, Node(parts[k], value, <<>>, FALSE))]
    ELSE
        IF i # 0
        THEN [current EXCEPT
                 !.Children[i] = SetFromVariant(@, parts, k + 1, value, variant)]
        ELSE [current EXCEPT
                 !.Children = Append(@,
                     SetFromVariant(Node(parts[k], EmptyStr, <<>>, variant # "leafpath"),
                                    parts, k + 1, value, variant))]

SetValueAppend(tree, path, value) == SetFromVariant(tree, Split(path), 1, value, "append")

SetValueLeafPath(tree, path, value) ==
    SetFromVariant(tree, Split(path), 1, value, "leafpath")

SetValueReplace(tree, path, value) ==
    SetFromVariant(tree, Split(path), 1, value, "replace")

\* The tree after SetValue(root, path, value); the call always returns nil.
SetValue(tree, path, value) == SetFrom(tree, Split(path), 1, value)

-----------------------------------------------------------------------------
(* Writer *)

\* fmt.Fprintf(w, "%s\"%s\"\n%s{\n", indentStr, child.Key, indentStr)
ObjectOpen(indentStr, child) ==
    indentStr \o <<Q>> \o child.Key \o <<Q, NL>> \o indentStr \o <<"{", NL>>

\* The closing brace written without its indentation.
ObjectCloseNoIndent(indentStr) == <<"}", NL>>

\* fmt.Fprintf(w, "%s}\n", indentStr)
ObjectClose(indentStr) == indentStr \o <<"}", NL>>

\* The leaf line with its value left unquoted.
LeafLineUnquoted(indentStr, child) ==
    indentStr \o <<Q>> \o child.Key \o <<Q, TAB, TAB>> \o child.Value \o <<NL>>

\* fmt.Fprintf(w, "%s\"%s\"\t\t\"%s\"\n", indentStr, child.Key, child.Value)
LeafLine(indentStr, child) ==
    indentStr \o <<Q>> \o child.Key \o <<Q, TAB, TAB, Q>> \o child.Value \o <<Q, NL>>

RECURSIVE Write(_, _)
RECURSIVE WriteChildren(_, _, _)
WriteChildren(children, k, indent) ==
    IF k > Len(children) THEN <<>>
    ELSE LET child == children[k]
             indentStr == Repeat(TAB, indent)
         IN (IF child.IsObject
             THEN ObjectOpen(indentStr, child) \o Write(child, indent + 1)
                      \o ObjectClose(indentStr)
             ELSE LeafLine(indentStr, child))
            \o WriteChildren(children, k + 1, indent)

\* The bytes Write(w, node, indent) sends to w.
Write(node, indent) == WriteChildren(node.Children, 1, indent)

-----------------------------------------------------------------------------
(* Inputs *)

\* Pieces of configuration text; an input is a concatenation of pieces.
OpenA == <<Q, "a", Q, NL, "{", NL>>
CloseBrace == <<TAB, "}", NL>>
LeafAX == <<TAB, Q, "a", Q, TAB, TAB, Q, "x", Q, NL>>
KeyB == <<Q, "b", Q, NL>>
LeafEmpty == <<Q, Q, " ", Q, Q, NL>>

Chunks == {OpenA, CloseBrace, LeafAX, KeyB, LeafEmpty}

RECURSIVE Concat(_)
Concat(ss) == IF ss = <<>> THEN <<>> ELSE Head(ss) \o Concat(Tail(ss))

Inputs == UNION {{Concat(cs) : cs \in [1..n -> Chunks]} : n \in 0..MaxChunks}

PathA == <<"a">>
PathABA == <<"a", "/", "b", "/", "a">>

Paths == {EmptyStr, PathA, PathABA}

ValueY == <<"y">>
ValueQuote == <<"y", Q>>

Values == {ValueY, ValueQuote}

-----------------------------------------------------------------------------
(* The program *)

Op(op, path, value, ret) ==
    [op |-> op, path |-> path, value |-> value, ret |-> ret, err |-> NilErr]

\* No file and no call: the state of package steam while the VDF functions run.
NoFiles == [config |-> EmptyStr, backups |-> <<>>]

NoCall == [fn |-> "none"]

HasTree == last.op \in {"parse", "set", "find"}

Init ==
    /\ input \in Inputs
    /\ root = NewRoot
    /\ before = NewRoot
    /\ last = Op("new", EmptyStr, EmptyStr, NoNode)
    /\ sets = <<>>
    /\ out = <<>>
    /\ root2 = NewRoot
    /\ fs = NoFiles
    /\ call = NoCall

\* parser := NewParser(strings.NewReader(input)); root, err := parser.Parse()
DoParse ==
    /\ last.op = "new"
    /\ root' = ParseResult(input).root
    /\ before' = root
    /\ last' = [Op("parse", EmptyStr, EmptyStr, ParseResult(input).ret)
                   EXCEPT !.err = ParseResult(input).err]
    /\ UNCHANGED <<input, sets, out, root2>>
    /\ UNCHANGED steamVars

\* SetValue(root, path, value)
DoSetValue(path, value) ==
    /\ HasTree
    /\ Len(sets) < MaxSets
    /\ root' = SetValue(root, path, value)
    /\ before' = root
    /\ last' = Op("set", path, value, NoNode)
    /\ sets' = Append(sets, [path |-> path, value |-> value])
    /\ UNCHANGED <<input, out, root2>>
    /\ UNCHANGED steamVars

\* node := FindNode(root, path)
DoFindNode(path) ==
    /\ HasTree
    /\ last' = Op("find", path, EmptyStr, FindNode(root, path))
    /\ before' = root
    /\ UNCHANGED <<input, root, sets, out, root2>>
    /\ UNCHANGED steamVars

\* Write(&output, root, 0)
DoWrite ==
    /\ HasTree
    /\ out' = Write(root, 0)
    /\ before' = root
    /\ last' = Op("write", EmptyStr, EmptyStr, NoNode)
    /\ UNCHANGED <<input, root, sets, root2>>
    /\ UNCHANGED steamVars

\* parser2 := NewParser(strings.NewReader(output.String())); root2, err := parser2.Parse()
DoReparse ==
    /\ last.op = "write"
    /\ root2' = ParseResult(out).root
    /\ before' = root
    /\ last' = [Op("reparse", EmptyStr, EmptyStr, ParseResult(out).ret)
                   EXCEPT !.err = ParseResult(out).err]
    /\ UNCHANGED <<input, root, sets, out>>
    /\ UNCHANGED steamVars

Next ==
    \/ DoParse
    \/ \E path \in Paths, value \in Values : DoSetValue(path, value)
    \/ \E path \in Paths : DoFindNode(path)
    \/ DoWrite
    \/ DoReparse

Spec == Init /\ [][Next]_vars

-----------------------------------------------------------------------------
(* The parser alone, on any sequence of lines *)

LineKeyA == <<Q, "a", Q, NL>>
LineOpen == <<"{", NL>>
LineClose == <<"}", NL>>
LineLeaf == <<TAB, Q, "b", Q, " ", Q, "x", Q, NL>>
LineBlank == <<" ", NL>>
LineComment == <<"/", "/", "c", NL>>
LineThree == <<Q, "c", Q, " ", Q, "y", Q, " ", Q, "z", Q, NL>>
LineOpenQuote == <<Q, "d", NL>>

Lines == {LineKeyA, LineOpen, LineClose, LineLeaf, LineBlank, LineComment,
          LineThree, LineOpenQuote}

ParseInputs == UNION {{Concat(ls) : ls \in [1..n -> Lines]} : n \in 0..MaxLines}

ParseInit ==
    /\ input \in ParseInputs
    /\ root = NewRoot
    /\ before = NewRoot
    /\ last = Op("new", EmptyStr, EmptyStr, NoNode)
    /\ sets = <<>>
    /\ out = <<>>
    /\ root2 = NewRoot
    /\ fs = NoFiles
    /\ call = NoCall

ParseNext ==
    \/ DoParse
    \/ DoWrite
    \/ DoReparse

ParseSpec == ParseInit /\ [][ParseNext]_vars

-----------------------------------------------------------------------------
(* Package steam: filter lists *)

\* ch < '0' || ch > '9' is false.
IsDigit(ch) == ch \in {"0", "1", "2", "3", "4", "5", "6", "7", "8", "9"}

\* The inner loop of ResolveGameIDs: isNumeric after it.
IsNumeric(item) == \A i \in 1..Len(item) : IsDigit(item[i])

\* ResolveGameIDs resolving a name the mapping knows, as it once did.
RECURSIVE ResolveByNameLoop(_, _, _, _, _)
ResolveByNameLoop(items, mapping, k, resolved, notFound) ==
    IF k > Len(items) THEN [resolved |-> resolved, notFound |-> notFound]
    ELSE IF IsNumeric(items[k]) /\ Len(items[k]) > 0
        THEN ResolveByNameLoop(items, mapping, k + 1, Append(resolved, items[k]), notFound)
    ELSE IF items[k] \in DOMAIN mapping
        THEN ResolveByNameLoop(items, mapping, k + 1,
                 Append(resolved, mapping[items[k]]), notFound)
        ELSE ResolveByNameLoop(items, mapping, k + 1, resolved, Append(notFound, items[k]))

ResolveGameIDsByName(items, mapping) == ResolveByNameLoop(items, mapping, 1, <<>>, <<>>)

\* The loop of ResolveGameIDs over items.
RECURSIVE ResolveLoop(_, _, _, _)
ResolveLoop(items, k, resolved, notFound) ==
    IF k > Len(items) THEN [resolved |-> resolved, notFound |-> notFound]
    ELSE IF IsNumeric(items[k]) /\ Len(items[k]) > 0
        THEN ResolveLoop(items, k + 1, Append(resolved, items[k]), notFound)
        ELSE ResolveLoop(items, k + 1, resolved, Append(notFound, items[k]))

\* ResolveGameIDs(items, mapping): the two lists it returns.
ResolveGameIDs(items, mapping) == ResolveLoop(items, 1, <<>>, <<>>)

\* The loop of LoadFilterList over the lines of the file.
RECURSIVE LoadLoop(_, _, _)
LoadLoop(lines, k, items) ==
    IF k > Len(lines) THEN items
    ELSE LET line == TrimSpace(lines[k]) IN
         IF line = <<>> \/ HasPrefix(line, <<"#">>)
         THEN LoadLoop(lines, k + 1, items)
         ELSE LoadLoop(lines, k + 1, Append(items, line))

\* A file that does not exist.
NoFile == [exists |-> FALSE, content |-> EmptyStr]

File(content) == [exists |-> TRUE, content |-> content]

\* LoadFilterList(filename), file being what the name refers to: the items
\* and the error.
LoadFilterList(file) ==
    IF ~file.exists THEN [items |-> <<>>, err |-> "failed to open filter file"]
    ELSE [items |-> LoadLoop(ScanLines(file.content), 1, <<>>), err |-> NilErr]

\* for _, id := range list { set[id] = true }
ToSet(list) == {list[i] : i \in 1..Len(list)}

\* for _, id := range allGameIDs { if set[id] == want { filtered = append(filtered, id) } }
RECURSIVE FilterLoop(_, _, _, _, _)
FilterLoop(allGameIDs, k, set, want, filtered) ==
    IF k > Len(allGameIDs) THEN filtered
    ELSE FilterLoop(allGameIDs, k + 1, set, want,
             IF (allGameIDs[k] \in set) = want
             THEN Append(filtered, allGameIDs[k]) ELSE filtered)

\* FilterGameIDs looking at the deny list first.
FilterGameIDsDenyFirst(allGameIDs, allowList, denyList) ==
    IF Len(denyList) > 0
        THEN FilterLoop(allGameIDs, 1, ToSet(denyList), FALSE, <<>>)
    ELSE IF Len(allowList) > 0
        THEN FilterLoop(allGameIDs, 1, ToSet(allowList), TRUE, <<>>)
    ELSE allGameIDs

FilterGameIDs(allGameIDs, allowList, denyList) ==
    IF Len(allowList) > 0
        THEN FilterLoop(allGameIDs, 1, ToSet(allowList), TRUE, <<>>)
    ELSE IF Len(denyList) > 0
        THEN FilterLoop(allGameIDs, 1, ToSet(denyList), FALSE, <<>>)
    ELSE allGameIDs

-----------------------------------------------------------------------------
(* Package steam: the filter functions as a program *)

App570 == <<"5", "7", "0">>
App730 == <<"7", "3", "0">>
App10 == <<"1", "0">>
NameDota == <<"d", "o", "t", "a", " ", "2">>

GameIDs == {App570, App730, App10}

\* The lists of at most n elements of S.
ListsOf(S, n) == UNION {[1..k -> S] : k \in 0..n}

VdfIdle ==
    /\ input = EmptyStr
    /\ root = NewRoot
    /\ before = NewRoot
    /\ last = Op("new", EmptyStr, EmptyStr, NoNode)
    /\ sets = <<>>
    /\ out = <<>>
    /\ root2 = NewRoot

FilterInit ==
    /\ VdfIdle
    /\ fs = NoFiles
    /\ call = NoCall

\* got := FilterGameIDs(allGameIDs, allowList, denyList)
DoFilterGameIDs(allGameIDs, allowList, denyList) ==
    /\ call.fn = "none"
    /\ call' = [fn |-> "FilterGameIDs",
                all |-> allGameIDs, allow |-> allowList, deny |-> denyList,
                ret |-> FilterGameIDs(allGameIDs, allowList, denyList)]
    /\ UNCHANGED fs
    /\ UNCHANGED vdfVars

FilterNext ==
    \E allGameIDs \in ListsOf(GameIDs, MaxIds),
       allowList \in ListsOf(GameIDs, MaxIds),
       denyList \in ListsOf(GameIDs, MaxIds) :
        DoFilterGameIDs(allGameIDs, allowList, denyList)

FilterSpec == FilterInit /\ [][FilterNext]_vars

\* Lines of a list file.
ListLineId == App570 \o <<NL>>
ListLineComment == <<"#", " ", "c", NL>>
ListLineBlank == <<NL>>
ListLineName == <<" ">> \o NameDota \o <<" ", NL>>
ListLineInline == App570 \o <<" ", " ", "#", " ", "D", NL>>

ListLines == {ListLineId, ListLineComment, ListLineBlank, ListLineName, ListLineInline}

ListFiles ==
    {NoFile} \cup
    UNION {{File(Concat(ls)) : ls \in [1..n -> ListLines]} : n \in 0..MaxListLines}

Items == {App570, EmptyStr, NameDota, <<"5", "7", "x">>}

\* Name mappings: none, and one that knows Dota 2 and the ID 570.
Mappings == {<<>>, [name \in {NameDota, App570} |-> App570]}

ListInit ==
    /\ VdfIdle
    /\ fs = NoFiles
    /\ call = NoCall

\* items, err := steam.LoadFilterList(filePath)
DoLoadFilterList(file) ==
    /\ call.fn = "none"
    /\ call' = [fn |-> "LoadFilterList", file |-> file, ret |-> LoadFilterList(file)]
    /\ UNCHANGED fs
    /\ UNCHANGED vdfVars

\* The items ResolveGameIDs is called with: those just loaded, or any list.
ResolveArgs ==
    IF call.fn = "LoadFilterList"
    THEN IF call.ret.err = NilErr THEN {call.ret.items} ELSE {}
    ELSE ListsOf(Items, MaxItems)

\* resolvedIDs, notFound := steam.ResolveGameIDs(items, mapping)
DoResolveGameIDs(items, mapping) ==
    /\ call.fn \in {"none", "LoadFilterList"}
    /\ items \in ResolveArgs
    /\ call' = [fn |-> "ResolveGameIDs",
                file |-> IF call.fn = "LoadFilterList" THEN call.file ELSE NoFile,
                items |-> items, mapping |-> mapping,
                ret |-> ResolveGameIDs(items, mapping)]
    /\ UNCHANGED fs
    /\ UNCHANGED vdfVars

ListNext ==
    \/ \E file \in ListFiles : DoLoadFilterList(file)
    \/ \E items \in ResolveArgs, mapping \in Mappings : DoResolveGameIDs(items, mapping)

ListSpec == ListInit /\ [][ListNext]_vars

-----------------------------------------------------------------------------
(* Package steam: UpdateLaunchOptions *)

\* fmt.Sprintf("UserLocalConfigStore/Software/Valve/Steam/apps/%s/LaunchOptions", appID)
LaunchOptionsPath(appID) ==
    <<"U", "s", "e", "r", "L", "o", "c", "a", "l", "C", "o", "n", "f", "i", "g",
      "S", "t", "o", "r", "e", "/", "S", "o", "f", "t", "w", "a", "r", "e", "/",
      "V", "a", "l", "v", "e", "/", "S", "t", "e", "a", "m", "/", "a", "p", "p", "s", "/">>
    \o appID \o
    <<"/", "L", "a", "u", "n", "c", "h", "O", "p", "t", "i", "o", "n", "s">>

\* for _, appID := range appIDs { vdf.SetValue(root, path, launchArgs) }
RECURSIVE SetLaunchOptions(_, _, _, _)
SetLaunchOptions(tree, appIDs, k, launchArgs) ==
    IF k > Len(appIDs) THEN tree
    ELSE SetLaunchOptions(SetValue(tree, LaunchOptionsPath(appIDs[k]), launchArgs),
                          appIDs, k + 1, launchArgs)

\* Backup files are named by their number: 0 is localconfig.vdf.backup and
\* i is localconfig.vdf.backup.i; backups maps the numbers of the files that
\* exist to their content.
\* getNextBackupPath(originalPath), as the number of the path it returns.
getNextBackupPath(backups) ==
    LET existing == DOMAIN backups
    IN  IF 0 \notin existing THEN 0
        ELSE IF \E i \in 1..(BackupLimit - 1) : i \notin existing
            THEN CHOOSE i \in 1..(BackupLimit - 1) :
                     i \notin existing /\ \A j \in 1..(i - 1) : j \in existing
            ELSE BackupFallback

\* The file created or truncated and nothing written to it.
WriteFileEmpty(backups, i, data) ==
    [j \in DOMAIN backups \cup {i} |-> IF j = i THEN EmptyStr ELSE backups[j]]

\* os.WriteFile(name, data, perm): the file created or truncated, then written.
WriteFile(backups, i, data) ==
    [j \in DOMAIN backups \cup {i} |-> IF j = i THEN data ELSE backups[j]]

\* The backup path returned: none ("") or the path of a number.
NoBackupPath == [made |-> FALSE, n |-> 0]

BackupPath(i) == [made |-> TRUE, n |-> i]

\* The steps of UpdateLaunchOptions that can fail.
Failures ==
    {"none", "open", "backupRead", "backupOpen", "backupWrite", "create", "write", "flush"}

BackupFailures == {"backupRead", "backupOpen", "backupWrite"}

\* What a write that fails has left in the file: nothing, or the first half.
Partial(data, written) == SubSeq(data, 1, written * (Len(data) \div 2))

Return(files, backupPath, err) == [fs |-> files, backupPath |-> backupPath, err |-> err]

\* UpdateLaunchOptions(localConfigPath, appIDs, launchArgs, skipBackup) on the
\* files, the step fail failing: the files after it and what it returns.
UpdateLaunchOptions(files, appIDs, launchArgs, skipBackup, fail, written) ==
    IF fail = "open" THEN Return(files, NoBackupPath, "failed to open localconfig.vdf")
    ELSE
    LET parsed == ParseResult(files.config)
        tree == SetLaunchOptions(parsed.root, appIDs, 1, launchArgs)
        n == getNextBackupPath(files.backups)
        saved == IF skipBackup THEN files
                 ELSE [files EXCEPT !.backups = WriteFile(files.backups, n, files.config)]
        backupPath == IF skipBackup THEN NoBackupPath ELSE BackupPath(n)
        text == Write(tree, 0)
    IN  IF parsed.err # NilErr
            THEN Return(files, NoBackupPath, "failed to parse localconfig.vdf")
        ELSE IF ~skipBackup /\ fail \in {"backupRead", "backupOpen"}
            THEN Return(files, NoBackupPath, "failed to create backup")
        ELSE IF ~skipBackup /\ fail = "backupWrite"
            THEN Return([files EXCEPT !.backups =
                             WriteFile(files.backups, n, Partial(files.config, written))],
                        NoBackupPath, "failed to create backup")
        ELSE IF fail = "create"
            THEN Return(saved, NoBackupPath, "failed to create output file")
        ELSE IF fail = "write"
            THEN Return([saved EXCEPT !.config = Partial(text, written)],
                        NoBackupPath, "failed to write VDF")
        ELSE IF fail = "flush"
            THEN Return([saved EXCEPT !.config = Partial(text, written)],
                        NoBackupPath, "failed to flush writer")
        ELSE Return([saved EXCEPT !.config = text], backupPath, NilErr)

\* A configuration file holding the launch options of app 570.
Config570 ==
    <<Q, "U", "s", "e", "r", "L", "o", "c", "a", "l", "C", "o", "n", "f",
      "i", "g", "S", "t", "o", "r", "e", Q, NL, "{", NL, TAB, Q, "S", "o",
      "f", "t", "w", "a", "r", "e", Q, NL, TAB, "{", NL, TAB, TAB, Q, "V",
      "a", "l", "v", "e", Q, NL, TAB, TAB, "{", NL, TAB, TAB, TAB, Q, "S",
      "t", "e", "a", "m", Q, NL, TAB, TAB, TAB, "{", NL, TAB, TAB, TAB,
      TAB, Q, "a", "p", "p", "s", Q, NL, TAB, TAB, TAB, TAB, "{", NL, TAB,
      TAB, TAB, TAB, TAB, Q, "5", "7", "0", Q, NL, TAB, TAB, TAB, TAB, TAB,
      "{", NL, TAB, TAB, TAB, TAB, TAB, TAB, Q, "L", "a", "u", "n", "c",
      "h", "O", "p", "t", "i", "o", "n", "s", Q, TAB, TAB, Q, "o", "l",
      "d", Q, NL, TAB, TAB, TAB, TAB, TAB, "}", NL, TAB, TAB, TAB, TAB,
      "}", NL, TAB, TAB, TAB, "}", NL, TAB, TAB, "}", NL, TAB, "}", NL,
      "}", NL>>

ConfigTexts == {EmptyStr, Config570}

\* The content of the backups that exist at the start.
OldBackup == LeafAX

\* The backups at the start: any of the first ones, or all that the search
\* of getNextBackupPath looks at, with and without the fallback path.
BackupNumbers ==
    (SUBSET (0..(MaxBackups - 1)))
        \cup {0..(BackupLimit - 1), 0..BackupFallback}

AppIDLists == {<<App570>>, <<App730, App570>>}

BackupInit ==
    /\ VdfIdle
    /\ fs \in {[config |-> c, backups |-> [i \in D |-> OldBackup]] :
                  c \in ConfigTexts, D \in BackupNumbers}
    /\ call = NoCall

\* backupPath, err := steam.UpdateLaunchOptions(localConfigPath, targetGameIDs, launchArgs, noBackup)
DoUpdateLaunchOptions(appIDs, launchArgs, skipBackup, fail, written) ==
    /\ call.fn = "none"
    /\ fail \in BackupFailures => ~skipBackup
    /\ fail \notin {"backupWrite", "write", "flush"} => written = 0
    /\ LET r == UpdateLaunchOptions(fs, appIDs, launchArgs, skipBackup, fail, written)
       IN  /\ fs' = r.fs
           /\ call' = [fn |-> "UpdateLaunchOptions",
                       appIDs |-> appIDs, launchArgs |-> launchArgs,
                       skipBackup |-> skipBackup, fail |-> fail,
                       before |-> fs, ret |-> r.backupPath, err |-> r.err]
    /\ UNCHANGED vdfVars

BackupNext ==
    \E appIDs \in AppIDLists, launchArgs \in {ValueY}, skipBackup \in BOOLEAN,
       fail \in Failures, written \in {0, 1} :
        DoUpdateLaunchOptions(appIDs, launchArgs, skipBackup, fail, written)

BackupSpec == BackupInit /\ [][BackupNext]_vars

-----------------------------------------------------------------------------
(* Package main: parseSelection *)

\* strings.Split(s, sep) for a separator of one character.
RECURSIVE SplitBy(_, _)
SplitBy(s, sep) ==
    LET i == IndexByte(s, sep) IN
    IF i = 0 THEN <<s>>
    ELSE <<SubSeq(s, 1, i - 1)>> \o SplitBy(SubSeq(s, i + 1, Len(s)), sep)

\* strings.Contains(s, c) for one character.
Contains(s, c) == IndexByte(s, c) # 0

DigitValue(ch) ==
    CASE ch = "0" -> 0 [] ch = "1" -> 1 [] ch = "2" -> 2 [] ch = "3" -> 3
      [] ch = "4" -> 4 [] ch = "5" -> 5 [] ch = "6" -> 6 [] ch = "7" -> 7
      [] ch = "8" -> 8 [] ch = "9" -> 9

\* The number a string of digits writes.
RECURSIVE DigitsValue(_)
DigitsValue(s) ==
    IF s = <<>> THEN 0
    ELSE 10 * DigitsValue(SubSeq(s, 1, Len(s) - 1)) + DigitValue(s[Len(s)])

\* strconv.Atoi(s): an optional sign and at least one digit, or an error.
Atoi(s) ==
    LET signed == s # <<>> /\ Head(s) \in {"+", "-"}
        digits == IF signed THEN Tail(s) ELSE s
    IN  IF digits = <<>> \/ ~IsNumeric(digits) THEN [ok |-> FALSE, n |-> 0]
        ELSE [ok |-> TRUE,
              n |-> IF signed /\ Head(s) = "-" THEN 0 - DigitsValue(digits)
                    ELSE DigitsValue(digits)]

\* indices := make([]int, max); for i := 0; i < max; i++ { indices[i] = i }
AllIndices(max) == [i \in 1..max |-> i - 1]

\* The range test without its lower limit.
RangeOkNoLower(start, end, max) == end <= max /\ start <= end

\* start > 0 && end <= max && start <= end
RangeOk(start, end, max) == start > 0 /\ end <= max /\ start <= end

\* if !seen[i-1] { indices = append(indices, i-1); seen[i-1] = true }
AddIndex(acc, i) ==
    IF (i - 1) \in acc.seen THEN acc
    ELSE [indices |-> Append(acc.indices, i - 1), seen |-> acc.seen \cup {i - 1}]

\* for i := start; i <= end; i++ { ... }
RECURSIVE AddRange(_, _, _)
AddRange(acc, i, end) ==
    IF i > end THEN acc ELSE AddRange(AddIndex(acc, i), i + 1, end)

\* The body of the loop over the parts, for one part.
AddPart(acc, rawPart, max) ==
    LET part == TrimSpace(rawPart) IN
    IF Contains(part, "-")
    THEN LET rangeParts == SplitBy(part, "-") IN
         IF Len(rangeParts) = 2
         THEN LET start == Atoi(TrimSpace(rangeParts[1]))
                  end == Atoi(TrimSpace(rangeParts[2]))
              IN  IF start.ok /\ end.ok /\ RangeOk(start.n, end.n, max)
                  THEN AddRange(acc, start.n, end.n)
                  ELSE acc
         ELSE acc
    ELSE LET num == Atoi(part) IN
         IF num.ok /\ num.n > 0 /\ num.n <= max THEN AddIndex(acc, num.n) ELSE acc

\* for _, part := range parts { ... }
RECURSIVE AddParts(_, _, _, _)
AddParts(acc, parts, k, max) ==
    IF k > Len(parts) THEN acc
    ELSE AddParts(AddPart(acc, parts[k], max), parts, k + 1, max)

parseSelection(text, max) ==
    LET trimmed == TrimSpace(text) IN
    IF trimmed = <<"*">> THEN AllIndices(max)
    ELSE AddParts([indices |-> <<>>, seen |-> {}], SplitBy(trimmed, ","), 1, max).indices

\* The characters of the selections tried.
SelectionChars == {"0", "1", "2", ",", "-", " ", "*"}

Selections == UNION {[1..n -> SelectionChars] : n \in 0..MaxSelection}

SelectionInit ==
    /\ VdfIdle
    /\ fs = NoFiles
    /\ call = NoCall

\* indices := parseSelection(input, len(results))
DoParseSelection(text, max) ==
    /\ call.fn = "none"
    /\ call' = [fn |-> "parseSelection", input |-> text, max |-> max,
                ret |-> parseSelection(text, max)]
    /\ UNCHANGED fs
    /\ UNCHANGED vdfVars

\* One call in a behaviour.
SelectionNext ==
    /\ call.fn = "none"
    /\ \E text \in Selections, max \in 0..MaxResults : DoParseSelection(text, max)

SelectionSpec == SelectionInit /\ [][SelectionNext]_vars

-----------------------------------------------------------------------------
(* Package main: runUpdate *)

\* "UserLocalConfigStore/Software/Valve/Steam/apps"
AppsPath ==
    <<"U", "s", "e", "r", "L", "o", "c", "a", "l", "C", "o", "n", "f", "i",
      "g", "S", "t", "o", "r", "e", "/", "S", "o", "f", "t", "w", "a", "r",
      "e", "/", "V", "a", "l", "v", "e", "/", "S", "t", "e", "a", "m", "/",
      "a", "p", "p", "s">>

\* for _, child := range appsNode.Children { appIDs = append(appIDs, child.Key) }
Keys(children) == [i \in 1..Len(children) |-> children[i].Key]

\* GetAllGameIDs(localConfigPath) on the text of the file, os.Open failing
\* when fail says so: the IDs and the error.
GetAllGameIDs(config, fail) ==
    IF fail = "open" THEN [ids |-> <<>>, err |-> "failed to open localconfig.vdf"]
    ELSE LET parsed == ParseResult(config)
             appsNode == FindNode(parsed.root, AppsPath)
         IN  IF parsed.err # NilErr
                 THEN [ids |-> <<>>, err |-> "failed to parse localconfig.vdf"]
             ELSE IF ~appsNode.found
                 THEN [ids |-> <<>>, err |-> "apps node not found in localconfig.vdf"]
             ELSE [ids |-> Keys(NodeAt(parsed.root, appsNode.pos).Children),
                   err |-> NilErr]

\* The refusal of a list that has invalid entries, whatever the flag.
RefusesAlways(notFound, ignoreMissing) == Len(notFound) > 0

\* len(notFound) > 0 and then !ignoreMissing: the list is refused.
Refuses(notFound, ignoreMissing) == Len(notFound) > 0 /\ ~ignoreMissing

\* loadAndResolveFilterList(filePath, listType, mapping, ignoreMissing), file
\* being the file at filePath: the IDs and the error.
loadAndResolveFilterList(file, mapping, ignoreMissing) ==
    LET loaded == LoadFilterList(file)
        r == ResolveGameIDs(loaded.items, mapping)
    IN  IF loaded.err # NilErr THEN [ids |-> <<>>, err |-> "failed to load list"]
        ELSE IF Refuses(r.notFound, ignoreMissing)
            THEN [ids |-> <<>>, err |-> "refusing to continue with missing games"]
        ELSE [ids |-> r.resolved, err |-> NilErr]

\* The test of the two list flags that never finds both.
BothGivenNever(allowFile, denyFile) == FALSE

\* allowFile != "" && denyFile != "", the flags as "is given".
BothGiven(allowFile, denyFile) == allowFile /\ denyFile

\* The Steam check made in a dry run too.
ChecksSteamAlways(dryRun) == TRUE

\* if !dryRun { steamRunning, err := steam.IsSteamRunning() ... }
ChecksSteam(dryRun) == ~dryRun

\* strings.ToLower on the letters of the answers.
ToLower(str) ==
    [i \in 1..Len(str) |->
        CASE str[i] = "Y" -> "y" [] str[i] = "E" -> "e" [] str[i] = "S" -> "s"
          [] str[i] = "N" -> "n" [] OTHER -> str[i]]

\* response == "" || response == "y" || response == "yes", after
\* strings.ToLower(strings.TrimSpace(response)).
Agrees(response) ==
    ToLower(TrimSpace(response)) \in {EmptyStr, <<"y">>, <<"y", "e", "s">>}

\* for i := 0; i < 10; i++
WaitLimit == 10

\* The idle state of the flags' run: what runUpdate has called, seen and got.
Frame(flags, listFile, files) ==
    [fn |-> "runUpdate", pc |-> "start", flags |-> flags, listFile |-> listFile,
     files |-> files, called |-> {}, lastCheck |-> "none",
     shouldRestartSteam |-> FALSE, i |-> 0,
     allGameIDs |-> <<>>, resolvedIDs |-> <<>>, targetGameIDs |-> <<>>,
     at |-> "start", err |-> NilErr]

\* return err, from the step the run is at.
Finish(frame, err) == [frame EXCEPT !.pc = "done", !.at = frame.pc, !.err = err]

Called(frame, name) == [frame EXCEPT !.called = @ \cup {name}]

\* A configuration file with the apps 570 and 730.
ConfigApps ==
    <<Q, "U", "s", "e", "r", "L", "o", "c", "a", "l", "C", "o", "n", "f",
      "i", "g", "S", "t", "o", "r", "e", Q, NL, "{", NL, TAB, Q, "S", "o",
      "f", "t", "w", "a", "r", "e", Q, NL, TAB, "{", NL, TAB, TAB, Q, "V",
      "a", "l", "v", "e", Q, NL, TAB, TAB, "{", NL, TAB, TAB, TAB, Q, "S",
      "t", "e", "a", "m", Q, NL, TAB, TAB, TAB, "{", NL, TAB, TAB, TAB,
      TAB, Q, "a", "p", "p", "s", Q, NL, TAB, TAB, TAB, TAB, "{", NL, TAB,
      TAB, TAB, TAB, TAB, Q, "5", "7", "0", Q, NL, TAB, TAB, TAB, TAB, TAB,
      "{", NL, TAB, TAB, TAB, TAB, TAB, "}", NL, TAB, TAB, TAB, TAB, TAB,
      Q, "7", "3", "0", Q, NL, TAB, TAB, TAB, TAB, TAB, "{", NL, TAB, TAB,
      TAB, TAB, TAB, "}", NL, TAB, TAB, TAB, TAB, "}", NL, TAB, TAB, TAB,
      "}", NL, TAB, TAB, "}", NL, TAB, "}", NL, "}", NL>>

RunConfigs == {EmptyStr, ConfigApps}

\* The list file at the path of --allow or --deny.
RunListFiles ==
    {NoFile, File(EmptyStr), File(ListLineId), File(ListLineId \o ListLineName),
     File(ListLineName)}

Flags ==
    [allowFile : BOOLEAN, denyFile : BOOLEAN, dryRun : BOOLEAN,
     autoCloseSteam : BOOLEAN, ignoreMissing : BOOLEAN, noBackup : BOOLEAN,
     openConfig : BOOLEAN]

\* The game mapping GetGameMapping returns.
RunMapping == [name \in {NameDota, App570} |-> App570]

\* What IsSteamRunning returns: running or not, or an error.
CheckResults == {"running", "stopped", "error"}

\* bool of (bool, error): false comes with an error.
Running(result) == result = "running"

UpdateInit ==
    /\ VdfIdle
    /\ fs \in {[config |-> c, backups |-> <<>>] : c \in RunConfigs}
    /\ call \in {Frame(flags, listFile, fs) :
                    flags \in Flags,
                    listFile \in RunListFiles}
    /\ (~call.flags.allowFile /\ ~call.flags.denyFile) => call.listFile = NoFile

At(pc) == call.fn = "runUpdate" /\ call.pc = pc

\* if allowFile != "" && denyFile != "" { return ... }; if !dryRun
DoValidate ==
    /\ At("start")
    /\ call' = IF BothGiven(call.flags.allowFile, call.flags.denyFile)
               THEN Finish(call, "cannot specify both --allow and --deny flags")
               ELSE IF ChecksSteam(call.flags.dryRun) THEN [call EXCEPT !.pc = "check"]
               ELSE [call EXCEPT !.pc = "locate"]
    /\ UNCHANGED fs
    /\ UNCHANGED vdfVars

\* steamRunning, err := steam.IsSteamRunning() and the branch on it
DoCheckSteam(result) ==
    /\ At("check")
    /\ LET checked == [Called(call, "IsSteamRunning") EXCEPT !.lastCheck = result]
       IN  call' = IF result = "error" THEN [checked EXCEPT !.pc = "locate"]
                   ELSE IF Running(result)
                       THEN IF call.flags.autoCloseSteam
                            THEN [checked EXCEPT !.pc = "close"]
                            ELSE [checked EXCEPT !.pc = "prompt"]
                   ELSE [checked EXCEPT !.pc = "locate"]
    /\ UNCHANGED fs
    /\ UNCHANGED vdfVars

\* fmt.Scanln(&response) and the branch on the answer
DoPrompt(response) ==
    /\ At("prompt")
    /\ call' = IF Agrees(response) THEN [call EXCEPT !.pc = "close"]
               ELSE Finish(call, "aborted - Steam must be closed to apply changes safely")
    /\ UNCHANGED fs
    /\ UNCHANGED vdfVars

\* if err := steam.CloseSteam(); err != nil { return ... }
DoCloseSteam(ok) ==
    /\ At("close")
    /\ call' = IF ok THEN [Called(call, "CloseSteam") EXCEPT !.pc = "wait", !.i = 0]
               ELSE Finish(Called(call, "CloseSteam"), "failed to close Steam")
    /\ UNCHANGED fs
    /\ UNCHANGED vdfVars

\* One turn of the loop that waits for Steam to close; i ends with the loop.
DoWait(result) ==
    /\ At("wait")
    /\ LET checked == [Called(call, "IsSteamRunning") EXCEPT
                           !.lastCheck = result, !.i = call.i + 1]
       IN  call' = IF ~Running(result) \/ call.i + 1 >= WaitLimit
                   THEN [checked EXCEPT !.pc = "verify", !.i = 0]
                   ELSE checked
    /\ UNCHANGED fs
    /\ UNCHANGED vdfVars

\* stillRunning, _ := steam.IsSteamRunning()
DoVerify(result) ==
    /\ At("verify")
    /\ LET checked == [Called(call, "IsSteamRunning") EXCEPT !.lastCheck = result]
       IN  call' = IF Running(result)
                   THEN Finish(checked, "Steam is still running after close attempt")
                   ELSE [checked EXCEPT !.shouldRestartSteam = TRUE, !.pc = "locate"]
    /\ UNCHANGED fs
    /\ UNCHANGED vdfVars

\* GetSteamPath, GetUserID, GetLocalConfigPath, GetGameMapping
DoLocate(fail) ==
    /\ At("locate")
    /\ call' = IF fail = "none" THEN [call EXCEPT !.pc = "ids"]
               ELSE Finish(call, fail)
    /\ UNCHANGED fs
    /\ UNCHANGED vdfVars

\* allGameIDs, err := steam.GetAllGameIDs(localConfigPath)
DoGetAllGameIDs(fail) ==
    /\ At("ids")
    /\ LET r == GetAllGameIDs(fs.config, fail)
       IN  call' = IF r.err # NilErr THEN Finish(call, r.err)
                   ELSE [call EXCEPT !.allGameIDs = r.ids, !.pc = "filter"]
    /\ UNCHANGED fs
    /\ UNCHANGED vdfVars

\* Load and resolve allow/deny lists
DoFilter ==
    /\ At("filter")
    /\ LET given == call.flags.allowFile \/ call.flags.denyFile
           r == loadAndResolveFilterList(call.listFile, RunMapping, call.flags.ignoreMissing)
           loaded == Called(call, "LoadFilterList")
       IN  call' =
               IF ~given
                   THEN [call EXCEPT !.targetGameIDs = call.allGameIDs, !.pc = "apply"]
               ELSE IF r.err # NilErr THEN Finish(loaded, r.err)
               ELSE [loaded EXCEPT
                        !.resolvedIDs = r.ids,
                        !.targetGameIDs =
                            IF call.flags.allowFile
                            THEN FilterGameIDs(call.allGameIDs, r.ids, <<>>)
                            ELSE FilterGameIDs(call.allGameIDs, <<>>, r.ids),
                        !.pc = "apply"]
    /\ UNCHANGED fs
    /\ UNCHANGED vdfVars

\* if openConfig { steam.OpenFile(localConfigPath) }
Opened(frame) == IF frame.flags.openConfig THEN Called(frame, "OpenFile") ELSE frame

\* if dryRun { ...; return nil }
DoDryRun ==
    /\ At("apply")
    /\ call.flags.dryRun
    /\ call' = Finish(Opened(call), NilErr)
    /\ UNCHANGED fs
    /\ UNCHANGED vdfVars

\* backupPath, err := steam.UpdateLaunchOptions(...)
DoUpdate(launchArgs, fail) ==
    /\ At("apply")
    /\ ~call.flags.dryRun
    /\ fail \in BackupFailures => ~call.flags.noBackup
    /\ LET r == UpdateLaunchOptions(fs, call.targetGameIDs, launchArgs,
                                    call.flags.noBackup, fail, 0)
           updated == Called(call, "UpdateLaunchOptions")
       IN  /\ fs' = r.fs
           /\ call' = IF r.err # NilErr THEN Finish(updated, r.err)
                      ELSE [updated EXCEPT !.pc = "restart"]
    /\ UNCHANGED vdfVars

\* if shouldRestartSteam { steam.StartSteam() }; if openConfig { ... }; return nil
DoRestart ==
    /\ At("restart")
    /\ call' = Finish(Opened(IF call.shouldRestartSteam
                             THEN Called(call, "StartSteam") ELSE call), NilErr)
    /\ UNCHANGED fs
    /\ UNCHANGED vdfVars

Responses == {EmptyStr, <<"y">>, <<"Y", "e", "s">>, <<"n">>, <<"n", "o">>}

LocateFailures == {"none", "failed to detect Steam path", "failed to detect user ID",
                   "failed to get game mapping"}

UpdateFailures == {"none", "open", "backupWrite", "create", "flush"}

UpdateNext ==
    \/ DoValidate
    \/ \E result \in CheckResults : DoCheckSteam(result)
    \/ \E response \in Responses : DoPrompt(response)
    \/ \E ok \in BOOLEAN : DoCloseSteam(ok)
    \/ \E result \in CheckResults : DoWait(result)
    \/ \E result \in CheckResults : DoVerify(result)
    \/ \E fail \in LocateFailures : DoLocate(fail)
    \/ \E fail \in {"none", "open"} : DoGetAllGameIDs(fail)
    \/ DoFilter
    \/ DoDryRun
    \/ \E fail \in UpdateFailures : DoUpdate(ValueY, fail)
    \/ DoRestart

UpdateSpec == UpdateInit /\ [][UpdateNext]_vars

-----------------------------------------------------------------------------
(* Properties *)

LastSet == sets[Len(sets)]

Leaf(key, value) == Node(key, value, <<>>, FALSE)

\* pos is the node the first-match walk over parts reaches in tree.
IsFirstMatch(tree, pos, parts) ==
    /\ Len(pos) = Len(parts)
    /\ \A k \in 1..Len(pos) :
           LET parent == NodeAt(tree, SubSeq(pos, 1, k - 1)) IN
           /\ pos[k] \in 1..Len(parent.Children)
           /\ parent.Children[pos[k]].Key = parts[k]
           /\ \A j \in 1..(pos[k] - 1) : parent.Children[j].Key # parts[k]

\* Every node of old is at the same position in new with the same key and
\* flag, and with the same value unless it is the node at target.
Preserved(old, new, target) ==
    \A p \in Positions(old) :
        /\ p \in Positions(new)
        /\ NodeAt(new, p).Key = NodeAt(old, p).Key
        /\ NodeAt(new, p).IsObject = NodeAt(old, p).IsObject
        /\ (p # target => NodeAt(new, p).Value = NodeAt(old, p).Value)

\* The chain of nodes a path none of whose segments exists stands for.
RECURSIVE ExpectedChain(_, _, _)
ExpectedChain(parts, k, value) ==
    IF k = Len(parts) THEN Leaf(parts[k], value)
    ELSE Node(parts[k], EmptyStr, <<ExpectedChain(parts, k + 1, value)>>, TRUE)

IsPrefix(p, q) == Len(p) <= Len(q) /\ SubSeq(q, 1, Len(p)) = p

\* C1: the tree Parse returns, written by Write at depth 0 and parsed again,
\* is deep-equal to itself: keys, values, IsObject flags, nesting, child order.
RoundTrip == (last.op = "reparse" /\ sets = <<>>) => root2 = root

\* A well-formed input without comments: an object holding one leaf.
RoundTripWitness ==
    /\ last.op = "reparse"
    /\ sets = <<>>
    /\ input = OpenA \o LeafAX \o CloseBrace
    /\ root.Children = <<Node(<<"a">>, EmptyStr, <<Leaf(<<"a">>, <<"x">>)>>, TRUE)>>
    /\ root2 = root

\* C2: after any SetValue calls, writing the tree and parsing the output
\* gives an equivalent tree, in which every path set holds the last value
\* set at it.
SetSurvivesWrite ==
    (last.op = "reparse" /\ sets # <<>>) =>
        /\ root2 = root
        /\ \A k \in 1..Len(sets) :
               (\A j \in (k + 1)..Len(sets) : sets[j].path # sets[k].path) =>
                   LET r == FindNode(root2, sets[k].path) IN
                   r.found /\ NodeAt(root2, r.pos).Value = sets[k].value

\* C3: FindNode right after SetValue(root, p, v) returns a node whose key is
\* the last segment of p and whose value is v.
UpsertObservable ==
    (last.op = "find" /\ sets # <<>> /\ last.path = LastSet.path) =>
        /\ last.ret.found
        /\ LET parts == Split(last.path) IN
           NodeAt(root, last.ret.pos).Key = parts[Len(parts)]
        /\ NodeAt(root, last.ret.pos).Value = LastSet.value

\* The path a/b/a created whole in an empty tree, then found.
UpsertObservableWitness ==
    /\ last.op = "find"
    /\ input = EmptyStr
    /\ sets = <<[path |-> PathABA, value |-> ValueY]>>
    /\ last.path = PathABA
    /\ last.ret = [found |-> TRUE, pos |-> <<1, 1, 1>>]

\* C4: SetValue called again with the same path and value leaves the tree as
\* the first call left it.
UpsertIdempotent ==
    (last.op = "set") =>
        /\ SetValue(root, last.path, last.value) = root
        /\ (Len(sets) >= 2 /\ sets[Len(sets) - 1] = LastSet) => root = before

\* A call that created a path, in a tree that held other entries.
UpsertIdempotentWitness ==
    /\ last.op = "set"
    /\ last.path = PathABA
    /\ input = LeafAX \o LeafEmpty
    /\ Len(root.Children) = 2
    /\ root.Children[1].Children # <<>>
    /\ SetValue(root, last.path, last.value) = root

\* C5: when the first segment of a path of two or more segments names no
\* child of the root, SetValue appends to the root one chain of new nodes:
\* an empty object per intermediate segment, then the leaf with the value.
UpsertCreatesPath ==
    LET parts == Split(last.path) IN
    (last.op = "set" /\ Len(parts) >= 2
        /\ FirstIndex(before.Children, parts[1]) = 0) =>
        root = [before EXCEPT
                   !.Children = Append(@, ExpectedChain(parts, 1, last.value))]

\* a/b/a created after the two children of a tree that has no child a.
UpsertCreatesPathWitness ==
    /\ last.op = "set"
    /\ last.path = PathABA
    /\ input = KeyB \o LeafEmpty \o LeafEmpty
    /\ Len(before.Children) = 2
    /\ Len(root.Children) = 3
    /\ root.Children[3].IsObject
    /\ root.Children[3].Children[1].IsObject
    /\ root.Children[3].Children[1].Children = <<Leaf(<<"a">>, last.value)>>

\* C6: SetValue removes and reorders nothing; when the whole path exists it
\* changes the value of the node the path names and nothing else.
UpsertFrame ==
    (last.op = "set") =>
        LET target == FindNode(before, last.path) IN
        IF target.found
        THEN /\ Positions(root) = Positions(before)
             /\ Preserved(before, root, target.pos)
             /\ NodeAt(root, target.pos).Value = last.value
        ELSE Preserved(before, root, <<0>>)

\* The leaf a, first of the root's children, overwritten in place.
UpsertFrameWitness ==
    /\ last.op = "set"
    /\ last.path = PathA
    /\ input = LeafAX \o LeafEmpty \o KeyB
    /\ before.Children[1] = Leaf(<<"a">>, <<"x">>)
    /\ root.Children = <<Leaf(<<"a">>, last.value), Leaf(EmptyStr, EmptyStr)>>

\* C7: FindNode with the empty path returns nil for every tree.
EmptyPathNotFound ==
    (last.op = "find" /\ last.path = EmptyStr) => ~last.ret.found

\* C8: FindNode returns nil when the first-match walk cannot be completed,
\* and the tree after the call is the tree before it.
FindIsPure ==
    (last.op = "find") =>
        /\ root = before
        /\ (~\E pos \in Positions(root) : IsFirstMatch(root, pos, Split(last.path)))
               => ~last.ret.found

\* a exists and is a leaf, so a/b/a is not found.
FindIsPureWitness ==
    /\ last.op = "find"
    /\ last.path = PathABA
    /\ input = LeafAX
    /\ sets = <<>>
    /\ ~last.ret.found
    /\ root = Parse(input)

\* C9: FindNode returns the first child with the key at every level, and
\* SetValue writes at the node FindNode returns for the same path: every
\* node it created or changed lies on the way to that node.
FirstMatchWins ==
    /\ (last.op = "find" /\ last.ret.found) =>
           IsFirstMatch(root, last.ret.pos, Split(last.path))
    /\ (last.op = "set") =>
           LET r == FindNode(root, last.path) IN
           /\ r.found
           /\ IsFirstMatch(root, r.pos, Split(last.path))
           /\ NodeAt(root, r.pos).Value = last.value
           /\ \A p \in Positions(root) :
                  (p \notin Positions(before)
                      \/ NodeAt(root, p).Value # NodeAt(before, p).Value)
                  => IsPrefix(p, r.pos)

\* Two leaves a: the first one is overwritten and found, the second is kept.
FirstMatchWinsWitness ==
    /\ last.op = "find"
    /\ last.path = PathA
    /\ input = LeafAX \o LeafAX
    /\ sets = <<[path |-> PathA, value |-> ValueY]>>
    /\ last.ret = [found |-> TRUE, pos |-> <<1>>]
    /\ root.Children = <<Leaf(<<"a">>, ValueY), Leaf(<<"a">>, <<"x">>)>>

\* C10: every node is a leaf or an object and never both: a node that is not
\* an object has no children, and an object holds no value.
LeafXorObject ==
    \A p \in Positions(root) :
        LET n == NodeAt(root, p) IN
        /\ (~n.IsObject => n.Children = <<>>)
        /\ (n.IsObject => n.Value = EmptyStr)

-----------------------------------------------------------------------------
(* Properties of the parser *)

\* C11: the root Parse returns exists and is an object; for the empty input
\* it has no children and the error is nil; the root is still an object
\* after SetValue calls.
RootIsObject ==
    /\ (last.op # "new") => root.IsObject
    /\ (last.op = "parse") => (last.ret.found /\ NodeAt(root, last.ret.pos).IsObject)
    /\ (last.op = "parse" /\ input = EmptyStr) =>
           (root.Children = <<>> /\ last.err = NilErr)
    /\ (last.op = "reparse") => (last.ret.found /\ root2.IsObject)

\* The root of the empty input after a SetValue call.
RootIsObjectWitness ==
    /\ last.op = "set"
    /\ input = EmptyStr
    /\ before.Children = <<>>
    /\ Len(root.Children) = 1
    /\ root.IsObject

JoinLines(lines) == Concat([i \in 1..Len(lines) |-> lines[i] \o <<NL>>])

IsInsignificant(line) ==
    TrimSpace(line) = <<>> \/ HasPrefix(TrimSpace(line), <<"/", "/">>)

IsSignificant(line) == ~IsInsignificant(line)

\* The text without its blank lines and its comment lines.
Significant(text) == JoinLines(SelectSeq(ScanLines(text), IsSignificant))

\* C13: blank lines and comment lines change nothing: the text parses to the
\* tree the text without them parses to.
CommentsCarryNothing ==
    (last.op = "parse") => root = Parse(Significant(input))

\* The recogniser of the format: depth objects are open, and expectOpen when
\* the line before was a key alone, which the opening brace must follow.
RECURSIVE WellFormedFrom(_, _, _, _)
WellFormedFrom(lines, i, depth, expectOpen) ==
    IF i > Len(lines) THEN depth = 0 /\ ~expectOpen
    ELSE LET line == TrimSpace(lines[i]) IN
    IF IsInsignificant(line) THEN WellFormedFrom(lines, i + 1, depth, expectOpen)
    ELSE IF line = <<"{">>
        THEN expectOpen /\ WellFormedFrom(lines, i + 1, depth + 1, FALSE)
    ELSE IF expectOpen THEN FALSE
    ELSE IF line = <<"}">>
        THEN depth > 0 /\ WellFormedFrom(lines, i + 1, depth - 1, FALSE)
    ELSE IF Head(line) # Q \/ line[Len(line)] # Q THEN FALSE
    ELSE IF Len(parseQuotedParts(line)) = 1
        THEN WellFormedFrom(lines, i + 1, depth, TRUE)
    ELSE Len(parseQuotedParts(line)) = 2
             /\ WellFormedFrom(lines, i + 1, depth, FALSE)

WellFormed(text) == WellFormedFrom(ScanLines(text), 1, 0, FALSE)

Closed(text, k) == text \o Concat([i \in 1..k |-> LineClose])

\* C14: a text that k closing-brace lines complete to a well-formed text
\* parses to the tree the completed text parses to.
ImplicitClose ==
    (last.op = "parse") =>
        \A k \in 1..MaxLines :
            WellFormed(Closed(input, k)) => root = Parse(Closed(input, k))

\* Two nested objects, neither closed.
ImplicitCloseWitness ==
    /\ last.op = "parse"
    /\ input = LineKeyA \o LineOpen \o LineKeyA \o LineOpen
    /\ WellFormed(Closed(input, 2))
    /\ root.Children =
           <<Node(<<"a">>, EmptyStr, <<Node(<<"a">>, EmptyStr, <<>>, TRUE)>>, TRUE)>>

\* The nodes of the tree that are not objects, in document order, as leaves.
RECURSIVE LeavesOf(_)
RECURSIVE LeavesFrom(_, _)
LeavesFrom(children, k) ==
    IF k > Len(children) THEN <<>>
    ELSE LeavesOf(children[k]) \o LeavesFrom(children, k + 1)

LeavesOf(node) ==
    (IF node.IsObject THEN <<>> ELSE <<Leaf(node.Key, node.Value)>>)
        \o LeavesFrom(node.Children, 1)

\* The leaf each line with two or more quoted tokens stands for.
RECURSIVE LeafLinesFrom(_, _)
LeafLinesFrom(lines, i) ==
    IF i > Len(lines) THEN <<>>
    ELSE LET parts == parseQuotedParts(TrimSpace(lines[i])) IN
         (IF IsSignificant(lines[i]) /\ Len(parts) >= 2
          THEN <<Leaf(parts[1], parts[2])>> ELSE <<>>)
             \o LeafLinesFrom(lines, i + 1)

RECURSIVE IsSubseq(_, _)
IsSubseq(s, t) ==
    IF s = <<>> THEN TRUE
    ELSE IF t = <<>> THEN FALSE
    ELSE IF Head(s) = Head(t) THEN IsSubseq(Tail(s), Tail(t))
    ELSE IsSubseq(s, Tail(t))

HasNoClosingBrace(text) ==
    \A i \in 1..Len(ScanLines(text)) : TrimSpace(ScanLines(text)[i]) # <<"}">>

\* C15: every significant line with two or more quoted tokens gives a leaf
\* with the first token as key and the second as value, in line order
\* (stated for the texts without a closing brace, where no scope ends early).
LeafLinesGiveLeaves ==
    (last.op = "parse" /\ HasNoClosingBrace(input)) =>
        IsSubseq(LeafLinesFrom(ScanLines(input), 1), LeavesOf(root))

-----------------------------------------------------------------------------
(* Properties of the writer *)

\* The lines the claim describes for the children of a node written at
\* depth d: what each line is, and its depth.
RECURSIVE ExpectedLines(_, _, _)
ExpectedLines(children, k, d) ==
    IF k > Len(children) THEN <<>>
    ELSE LET child == children[k] IN
         (IF child.IsObject
          THEN <<[kind |-> "key", depth |-> d, node |-> child]>>
                   \o <<[kind |-> "open", depth |-> d, node |-> child]>>
                   \o ExpectedLines(child.Children, 1, d + 1)
                   \o <<[kind |-> "close", depth |-> d, node |-> child]>>
          ELSE <<[kind |-> "leaf", depth |-> d, node |-> child]>>)
             \o ExpectedLines(children, k + 1, d)

Quoted(str) == <<Q>> \o str \o <<Q>>

LineMatches(line, e) ==
    LET tabs == Repeat(TAB, e.depth) IN
    IF e.kind = "key" THEN line = tabs \o Quoted(e.node.Key)
    ELSE IF e.kind = "open" THEN line = tabs \o <<"{">>
    ELSE IF e.kind = "close" THEN line = tabs \o <<"}">>
    ELSE LET pre == tabs \o Quoted(e.node.Key)
             suf == Quoted(e.node.Value)
         IN /\ Len(line) > Len(pre) + Len(suf)
            /\ SubSeq(line, 1, Len(pre)) = pre
            /\ SubSeq(line, Len(line) - Len(suf) + 1, Len(line)) = suf
            /\ \A i \in (Len(pre) + 1)..(Len(line) - Len(suf)) : IsSpace(line[i])

\* The text is the lines described, each ended by a newline.
WriteShapeOk(text, node, d) ==
    LET lines == ScanLines(text)
        expected == ExpectedLines(node.Children, 1, d)
    IN /\ text = JoinLines(lines)
       /\ Len(lines) = Len(expected)
       /\ \A i \in 1..Len(lines) : LineMatches(lines[i], expected[i])

\* C16: Write emits the children of the node it is given and nothing of the
\* node itself: key line, brace lines and the children one level deeper for
\* an object, one line for a leaf, every line behind exactly d tabs.
WriteShape ==
    /\ (last.op = "write") => WriteShapeOk(out, root, 0)
    /\ (last.op # "new") =>
           \A p \in Positions(root), d \in 0..1 :
               WriteShapeOk(Write(NodeAt(root, p), d), NodeAt(root, p), d)

\* A leaf, then two nested objects around a leaf, written.
WriteShapeWitness ==
    /\ last.op = "write"
    /\ input = LeafEmpty
    /\ sets = <<[path |-> PathABA, value |-> ValueY]>>
    /\ Len(ScanLines(out)) = 8
    /\ WriteShapeOk(out, root, 0)


\* The elements of a list.
Elems(list) == {list[i] : i \in 1..Len(list)}

\* C17: FilterGameIDs returns, in the order of all: the elements of all that
\* are in allow when allow is not empty; otherwise those not in deny when
\* deny is not empty; otherwise all.
FilterContract ==
    (call.fn = "FilterGameIDs") =>
        LET InAllow(id) == id \in Elems(call.allow)
            NotInDeny(id) == id \notin Elems(call.deny)
        IN  call.ret = IF call.allow # <<>> THEN SelectSeq(call.all, InAllow)
                       ELSE IF call.deny # <<>> THEN SelectSeq(call.all, NotInDeny)
                       ELSE call.all

\* Both lists given: the allow list decides.
FilterContractWitness ==
    /\ call.fn = "FilterGameIDs"
    /\ call.all = <<App730, App570>>
    /\ call.allow = <<App570>>
    /\ call.deny = <<App570>>
    /\ call.ret = <<App570>>

\* A non-empty string of the ASCII digits.
IsAppId(item) ==
    /\ item # <<>>
    /\ \A i \in 1..Len(item) : item[i] \in {"0", "1", "2", "3", "4", "5", "6", "7", "8", "9"}

\* C18: ResolveGameIDs puts every item, unchanged and in order, in the first
\* list when it is a non-empty string of digits and in the second list
\* otherwise, whatever the name mapping.
ResolvePartition ==
    (call.fn = "ResolveGameIDs") =>
        LET Invalid(item) == ~IsAppId(item)
        IN  /\ call.ret.resolved = SelectSeq(call.items, IsAppId)
            /\ call.ret.notFound = SelectSeq(call.items, Invalid)
            /\ \A m \in Mappings : ResolveGameIDs(call.items, m) = call.ret

\* A name the mapping knows is invalid, next to a valid ID.
ResolvePartitionWitness ==
    /\ call.fn = "ResolveGameIDs"
    /\ call.items = <<NameDota, App570>>
    /\ NameDota \in DOMAIN call.mapping
    /\ call.ret.resolved = <<App570>>
    /\ call.ret.notFound = <<NameDota>>


\* What a line of a list file stands for: the app ID of a line made of an ID,
\* whitespace and a # comment, and the trimmed line otherwise.
Entry(line) ==
    LET t == TrimSpace(line)
        h == IndexByte(t, "#")
    IN  IF h > 1 /\ IsSpace(t[h - 1]) /\ IsAppId(TrimSpace(SubSeq(t, 1, h - 1)))
        THEN TrimSpace(SubSeq(t, 1, h - 1))
        ELSE t

\* Neither an empty line nor a line starting with #.
IsEntryLine(line) == TrimSpace(line) # <<>> /\ ~HasPrefix(TrimSpace(line), <<"#">>)

\* The entries of a list file, in file order.
Entries(content) ==
    LET ls == SelectSeq(ScanLines(content), IsEntryLine)
    IN  [i \in 1..Len(ls) |-> Entry(ls[i])]

\* C20: a list file gives, in file order, the trimmed lines that are neither
\* empty nor start with #, a line "ID whitespace # comment" giving the ID,
\* which is then a valid entry.
ListFormat ==
    /\ (call.fn = "LoadFilterList" /\ call.file.exists) =>
           call.ret.items = Entries(call.file.content)
    /\ (call.fn = "ResolveGameIDs" /\ call.file.exists) =>
           call.ret.resolved = SelectSeq(Entries(call.file.content), IsAppId)


\* C19: a run of UpdateLaunchOptions leaves every backup that existed before
\* it in place with the content it had, and a backup it creates is at a path
\* that did not exist.
BackupsNeverOverwritten ==
    (call.fn = "UpdateLaunchOptions") =>
        LET old == DOMAIN call.before.backups
            now == DOMAIN fs.backups
        IN  /\ old \subseteq now
            /\ \A i \in old : fs.backups[i] = call.before.backups[i]
            /\ call.ret.made => call.ret.n \notin old


\* C23: unless the backup is skipped, a call of UpdateLaunchOptions that has
\* changed the configuration file, or that returns no error, has made the
\* backup with the content the file had before the call; and when making the
\* backup fails the call returns an error and the file is as before.
BackupBeforeSave ==
    (call.fn = "UpdateLaunchOptions" /\ ~call.skipBackup) =>
        LET n == getNextBackupPath(call.before.backups)
            made == /\ n \in DOMAIN fs.backups
                    /\ fs.backups[n] = call.before.config
        IN  /\ fs.config # call.before.config => made
            /\ call.err = NilErr => made /\ call.ret = BackupPath(n)
            /\ call.fail \in BackupFailures =>
                   call.err # NilErr /\ fs.config = call.before.config

\* The write of the configuration file fails after the backup was made.
BackupBeforeSaveWitness ==
    /\ call.fn = "UpdateLaunchOptions"
    /\ ~call.skipBackup
    /\ call.fail = "write"
    /\ call.before.config = Config570
    /\ fs.config # Config570
    /\ 0 \in DOMAIN fs.backups
    /\ 0 \notin DOMAIN call.before.backups
    /\ fs.backups[0] = Config570

\* C29: a call of UpdateLaunchOptions that returns an error leaves the
\* configuration file with the content it had before the call.
AllOrNothing ==
    (call.fn = "UpdateLaunchOptions" /\ call.err # NilErr) =>
        fs.config = call.before.config


\* A line holding one quoted token and nothing else that counts.
IsKeyOnly(line) ==
    LET t == TrimSpace(line)
    IN  /\ IsSignificant(line)
        /\ t \notin {<<"{">>, <<"}">>}
        /\ Len(parseQuotedParts(t)) = 1

\* C30: when the first line holds a single quoted token and the line after it
\* is not {, the lines after the first give the nodes they give on their own,
\* after the node of the first line if it gives one.
KeyOnlyKeepsNext ==
    (last.op = "parse") =>
        LET ls == ScanLines(input)
        IN  (/\ Len(ls) >= 2
             /\ IsKeyOnly(ls[1])
             /\ TrimSpace(ls[2]) # <<"{">>) =>
                LET rest == Parse(JoinLines(Tail(ls))).Children
                    key == parseQuotedParts(TrimSpace(ls[1]))[1]
                IN  \/ root.Children = rest
                    \/ /\ Len(root.Children) = Len(rest) + 1
                       /\ root.Children[1].Key = key
                       /\ Tail(root.Children) = rest


\* The elements of a sequence in the order of their first appearance.
RECURSIVE FirstAppearances(_)
FirstAppearances(seq) ==
    IF seq = <<>> THEN <<>>
    ELSE LET front == FirstAppearances(SubSeq(seq, 1, Len(seq) - 1))
             x == seq[Len(seq)]
         IN  IF x \in Elems(front) THEN front ELSE Append(front, x)

\* What one comma-separated part selects: n-1 for an integer n in 1..max,
\* a-1..b-1 for a-b with 1 <= a <= b <= max, nothing otherwise.
Contribution(rawPart, max) ==
    LET part == TrimSpace(rawPart)
        dash == IndexByte(part, "-")
        a == TrimSpace(SubSeq(part, 1, dash - 1))
        b == TrimSpace(SubSeq(part, dash + 1, Len(part)))
    IN  IF IsAppId(part)
        THEN IF 1 <= DigitsValue(part) /\ DigitsValue(part) <= max
             THEN <<DigitsValue(part) - 1>> ELSE <<>>
        ELSE IF dash > 0 /\ IsAppId(a) /\ IsAppId(b)
        THEN IF 1 <= DigitsValue(a) /\ DigitsValue(a) <= DigitsValue(b)
                  /\ DigitsValue(b) <= max
             THEN [i \in 1..(DigitsValue(b) - DigitsValue(a) + 1) |->
                       DigitsValue(a) + i - 2]
             ELSE <<>>
        ELSE <<>>

\* C24: parseSelection gives 0..max-1 for the trimmed input *, and otherwise
\* what the comma-separated parts select, each index once, in the order of
\* first appearance; the indices are distinct and in 0..max-1.
SelectionContract ==
    (call.fn = "parseSelection") =>
        LET trimmed == TrimSpace(call.input)
            parts == SplitBy(trimmed, ",")
            selected == Concat([k \in 1..Len(parts) |-> Contribution(parts[k], call.max)])
        IN  /\ call.ret = IF trimmed = <<"*">>
                          THEN [i \in 1..call.max |-> i - 1]
                          ELSE FirstAppearances(selected)
            /\ \A i \in 1..Len(call.ret) : call.ret[i] \in 0..(call.max - 1)
            /\ \A i, j \in 1..Len(call.ret) : call.ret[i] = call.ret[j] => i = j

\* A range and then an index the range already gave.
SelectionContractWitness ==
    /\ call.fn = "parseSelection"
    /\ call.input = <<"1", "-", "2", ",", "1">>
    /\ call.max = 2
    /\ call.ret = <<0, 1>>


\* The calls that check, close or start Steam or write the files.
Effects == {"IsSteamRunning", "CloseSteam", "StartSteam", "UpdateLaunchOptions"}

\* C21: a dry run of update leaves the configuration file and the backups as
\* they were and calls none of IsSteamRunning, CloseSteam, StartSteam and
\* UpdateLaunchOptions.
DryRunChangesNothing ==
    (call.fn = "runUpdate" /\ call.flags.dryRun) =>
        /\ fs = call.files
        /\ call.called \cap Effects = {}

\* A dry run with an allow list that reaches its end and opens the file.
DryRunChangesNothingWitness ==
    /\ call.fn = "runUpdate"
    /\ call.flags.dryRun
    /\ call.flags.allowFile
    /\ call.pc = "done"
    /\ call.at = "apply"
    /\ call.err = NilErr
    /\ call.targetGameIDs = <<App570>>
    /\ call.called = {"LoadFilterList", "OpenFile"}

\* C22: UpdateLaunchOptions is called only when the latest check of Steam
\* has reported, without error, that Steam is not running; a run that the
\* user declines or that finds Steam still running ends with an error and
\* the files as they were.
WrittenOnlyWhenClosed ==
    (call.fn = "runUpdate") =>
        /\ "UpdateLaunchOptions" \in call.called => call.lastCheck = "stopped"
        /\ (call.pc = "done" /\ call.at \in {"prompt", "verify"}) =>
               call.err # NilErr /\ fs = call.files

\* C26: with both --allow and --deny the run ends at once with an error:
\* nothing is called and no file is changed.
BothFlagsRejected ==
    (call.fn = "runUpdate" /\ call.flags.allowFile /\ call.flags.denyFile) =>
        /\ call.pc \in {"start", "done"}
        /\ call.called = {}
        /\ fs = call.files
        /\ call.pc = "done" => call.err # NilErr /\ call.at = "start"

\* The run with both flags has returned its error.
BothFlagsRejectedWitness ==
    /\ call.fn = "runUpdate"
    /\ call.flags.allowFile
    /\ call.flags.denyFile
    /\ ~call.flags.dryRun
    /\ call.pc = "done"
    /\ call.err # NilErr

\* The run is past the loading of its list.
PastFilter(frame) ==
    \/ frame.pc \in {"apply", "restart"}
    \/ frame.pc = "done" /\ frame.at \in {"apply", "restart"}

\* The list file of the run loads and has an entry that is no app ID.
HasInvalidEntry(frame) ==
    /\ frame.flags.allowFile # frame.flags.denyFile
    /\ frame.listFile.exists
    /\ \E k \in 1..Len(Entries(frame.listFile.content)) :
           ~IsAppId(LoadFilterList(frame.listFile).items[k])

AllowRestricts ==
    (/\ call.fn = "runUpdate"
     /\ call.flags.allowFile
     /\ "UpdateLaunchOptions" \in call.called) =>
        Elems(call.targetGameIDs) \subseteq Elems(LoadFilterList(call.listFile).items)

\* C28: a run that has closed Steam has called StartSteam when it ends, and
\* StartSteam is called only in a run that has closed Steam.
SteamRestarted ==
    (call.fn = "runUpdate") =>
        /\ (call.pc = "done" /\ call.shouldRestartSteam) => "StartSteam" \in call.called
        /\ "StartSteam" \in call.called =>
               call.shouldRestartSteam /\ "CloseSteam" \in call.called

====
